---- MODULE Spec2Model ----
(***************************************************************************)
(* Model of tools/simulate_start_call.py: the simulated call-start         *)
(* workflow over the in-memory mock tables organizations, org_members,     *)
(* systems, calls, ai_runs and audit_logs.                                 *)
(*                                                                         *)
(* Python values are represented as follows: None is the string None       *)
(* below, str(uuid.uuid4()) is "uuid-<n>" for a fresh n, the provider id   *)
(* 'SW_' + hex is "SW_<n>", now() is "t<n>" for a strictly increasing n,   *)
(* a dict is a function on its keys, a list is a sequence and an error     *)
(* tuple (code, message) is a pair.  Where the code holds a row or None    *)
(* (the result of organizations.get or of the membership search), None is  *)
(* NoRow, the function with no keys.                                       *)
(***************************************************************************)
EXTENDS Integers, Sequences, FiniteSets, TLC

VARIABLES
    organizations,  \* dict: organization id -> Organization row
    org_members,    \* list of OrgMember rows
    systems,        \* list of System rows
    calls,          \* list of Call rows
    ai_runs,        \* list of AiRun rows
    audit_logs,     \* list of AuditLog rows
    pc,             \* position of the running invocation, "idle" when none
    input,          \* argument of the running (when idle: the last) invocation
    actor,          \* argument of the running (when idle: the last) invocation
    errors,         \* local: list of (code, message)
    org,            \* local: organization row
    sys_cpid,       \* local: id of the control system or None
    sys_ai,         \* local: id of the AI system or None
    call_id,        \* local
    call_row,       \* local: alias of the row appended to calls (its index)
    call_sid,       \* local
    mods,           \* local: input.get('modulations', {})
    result,         \* value returned by the last finished invocation
    uuid_ctr,       \* number of uuid.uuid4() draws so far
    clock,          \* number of now() readings so far
    invocations,    \* number of invocations started so far
    returned_ok,    \* number of invocations that returned success=true so far
    pre             \* calls, ai_runs, audit_logs as they were at invocation

tables == <<organizations, org_members, systems>>
rows   == <<calls, ai_runs, audit_logs>>
locals == <<input, actor, errors, org, sys_cpid, sys_ai, call_id, call_row, call_sid, mods>>
vars   == <<organizations, org_members, systems, calls, ai_runs, audit_logs, pc,
           input, actor, errors, org, sys_cpid, sys_ai, call_id, call_row,
           call_sid, mods, result, uuid_ctr, clock, invocations, returned_ok, pre>>

----------------------------------------------------------------------------
(* Bounds *)

MaxInvocations == 2

----------------------------------------------------------------------------
(* Python values *)

None == "None"

\* faulty variant of Falsy: only None counts as missing, the empty string passes
FalsyNoneOnly(v) == v = None

\* `not v` for the values the workflow tests: None and '' are falsy.
Falsy(v) == v = None \/ v = ""

\* str(uuid.uuid4()): the n-th draw
uuid4(n) == "uuid-" \o ToString(n)

\* 'SW_' + uuid.uuid4().hex[:10]: the n-th draw
provider_sid(n) == "SW_" \o ToString(n)

\* now(): the n-th reading of the clock
now(n) == "t" \o ToString(n)

\* d.get(k) for a dict d with boolean values: a missing key reads as None (falsy)
Requested(d, k) == k \in DOMAIN d /\ d[k] = TRUE

EmptyDict == <<>>

\* None where a row (a dict) is expected
NoRow == <<>>

\* `not r` for a row or None: None and {} are falsy
FalsyRow(r) == r = NoRow

----------------------------------------------------------------------------
(* Mock tables *)

Org1 == [id |-> "org-1", name |-> "ACME", plan |-> "paid", tool_id |-> "tool-1", created_by |-> "user-1"]
Org2 == [id |-> "org-2", name |-> "BETA", plan |-> "free", tool_id |-> "tool-2", created_by |-> "user-2"]

Member1 == [id |-> "m-1", organization_id |-> "org-1", user_id |-> "user-1", role |-> "admin"]
Member2 == [id |-> "m-2", organization_id |-> "org-2", user_id |-> "user-2", role |-> "member"]

SysCpid == [id |-> "sys-cpid", key |-> "system-cpid"]
SysAi   == [id |-> "sys-ai", key |-> "system-ai"]

\* The seeded tables of the module, and the other seedings the workflow is run against.
OrganizationTables == { EmptyDict, ("org-1" :> Org1), ("org-1" :> Org1) @@ ("org-2" :> Org2) }
OrgMemberTables    == { <<>>, <<Member1>>, <<Member1, Member2>> }
SystemTables       == { <<>>, <<SysCpid>>, <<SysAi>>, <<SysCpid, SysAi>> }

\* faulty variant of organizations_get: an unknown id falls back to the first organization
organizations_get_fallback(id) ==
    IF id \in DOMAIN organizations THEN organizations[id]
    ELSE IF organizations # EmptyDict
         THEN organizations[CHOOSE k \in DOMAIN organizations : TRUE]
         ELSE NoRow

\* organizations.get(id)
organizations_get(id) == IF id \in DOMAIN organizations THEN organizations[id] ELSE NoRow

\* next((m for m in org_members if ...), None)
find_member(o, a) ==
    LET hits == { i \in 1..Len(org_members) :
                    org_members[i].organization_id = o.id /\ org_members[i].user_id = a }
    IN IF hits = {} THEN NoRow
       ELSE org_members[CHOOSE i \in hits : \A j \in hits : i <= j]

\* { s['key']: s['id'] for s in systems }.get(key): a later row overrides an earlier one
system_map_get(key) ==
    LET hits == { i \in 1..Len(systems) : systems[i].key = key }
    IN IF hits = {} THEN None
       ELSE systems[CHOOSE i \in hits : \A j \in hits : i >= j].id

----------------------------------------------------------------------------
(* Inputs *)

ActorValues == { None, "", "user-1", "user-2" }
OrgIdValues == { "org-1", "org-2" }
ModulationValues ==
    { EmptyDict,
      [record |-> TRUE], [transcribe |-> TRUE],
      [record |-> TRUE, transcribe |-> TRUE],
      [record |-> FALSE, transcribe |-> TRUE],
      [record |-> FALSE, transcribe |-> FALSE] }

\* phone_number and modulations may each be left out of the input
InputValues ==
    LET required == { [organization_id |-> o] : o \in OrgIdValues }
        phones   == { EmptyDict, [phone_number |-> "+15555551234"] }
        modsets  == { EmptyDict } \cup { [modulations |-> m] : m \in ModulationValues }
    IN { r @@ p @@ m : r \in required, p \in phones, m \in modsets }

NoResult == [success |-> FALSE, errors |-> <<>>]

----------------------------------------------------------------------------
(* Initial state: the tables as seeded, no invocation running *)

Init ==
    /\ organizations \in OrganizationTables
    /\ org_members \in OrgMemberTables
    /\ systems \in SystemTables
    /\ calls = <<>>
    /\ ai_runs = <<>>
    /\ audit_logs = <<>>
    /\ pc = "idle"
    /\ input = None
    /\ actor = None
    /\ errors = <<>>
    /\ org = NoRow
    /\ sys_cpid = None
    /\ sys_ai = None
    /\ call_id = None
    /\ call_row = 0
    /\ call_sid = None
    /\ mods = EmptyDict
    /\ result = NoResult
    /\ uuid_ctr = 0
    /\ clock = 0
    /\ invocations = 0
    /\ returned_ok = 0
    /\ pre = [calls |-> <<>>, ai_runs |-> <<>>, audit_logs |-> <<>>]

----------------------------------------------------------------------------
(* The workflow, one action per numbered step of simulate_start_call *)

\* faulty variant of write_audit: the entry is put at the head of the log
write_audit_at_head(logs, entry) == <<entry>> \o logs

\* faulty variant of write_audit: the entry takes the place of the last one
write_audit_over_last(logs, entry) ==
    IF logs = <<>> THEN <<entry>> ELSE [logs EXCEPT ![Len(logs)] = entry]

\* def write_audit(entry): audit_logs.append(entry)
write_audit(logs, entry) == Append(logs, entry)

\* `return {'success': False, 'errors': errors}`: the locals are dropped, the
\* arguments stay on record as those of the last invocation
ReturnFailure(errs) ==
    /\ result' = [success |-> FALSE, errors |-> errs]
    /\ pc' = "idle"
    /\ UNCHANGED <<input, actor>>
    /\ errors' = <<>>
    /\ org' = NoRow
    /\ sys_cpid' = None
    /\ sys_ai' = None
    /\ call_id' = None
    /\ call_row' = 0
    /\ call_sid' = None
    /\ mods' = EmptyDict

\* simulate_start_call(input, actor): entry
Invoke(i, a) ==
    /\ pc = "idle"
    /\ invocations < MaxInvocations
    /\ invocations' = invocations + 1
    /\ input' = i
    /\ actor' = a
    /\ errors' = <<>>
    /\ pre' = [calls |-> calls, ai_runs |-> ai_runs, audit_logs |-> audit_logs]
    /\ pc' = "auth"
    /\ UNCHANGED <<tables, rows, org, sys_cpid, sys_ai, call_id, call_row, call_sid,
                   mods, result, uuid_ctr, clock, returned_ok>>

\* faulty variant of AuthCheck: the organization is looked up before the actor is tested
AuthCheckAfterOrg ==
    /\ pc = "auth"
    /\ IF FalsyRow(organizations_get(input.organization_id))
       THEN ReturnFailure(Append(errors, <<"CALL_START_ORG_NOT_FOUND", "Organization not found">>))
       ELSE IF Falsy(actor)
            THEN ReturnFailure(Append(errors, <<"AUTH_REQUIRED", "Unauthenticated">>))
            ELSE /\ pc' = "org"
                 /\ UNCHANGED <<locals, result>>
    /\ UNCHANGED <<tables, rows, uuid_ctr, clock, invocations, returned_ok, pre>>

\* 1) Auth check
AuthCheck ==
    /\ pc = "auth"
    /\ IF Falsy(actor)
       THEN ReturnFailure(Append(errors, <<"AUTH_REQUIRED", "Unauthenticated">>))
       ELSE /\ pc' = "org"
            /\ UNCHANGED <<locals, result>>
    /\ UNCHANGED <<tables, rows, uuid_ctr, clock, invocations, returned_ok, pre>>

\* org = organizations.get(input['organization_id'])
OrgCheck ==
    /\ pc = "org"
    /\ LET o == organizations_get(input.organization_id)
       IN IF FalsyRow(o)
          THEN ReturnFailure(Append(errors, <<"CALL_START_ORG_NOT_FOUND", "Organization not found">>))
          ELSE /\ org' = o
               /\ pc' = "member"
               /\ UNCHANGED <<input, actor, errors, sys_cpid, sys_ai, call_id, call_row,
                              call_sid, mods, result>>
    /\ UNCHANGED <<tables, rows, uuid_ctr, clock, invocations, returned_ok, pre>>

\* faulty variant of MemberCheck: the refusal is written to the audit log
MemberCheckAuditsRefusal ==
    /\ pc = "member"
    /\ IF FalsyRow(find_member(org, actor))
       THEN /\ ReturnFailure(Append(errors, <<"AUTH_ORG_MISMATCH", "Actor not authorized for organization">>))
            /\ audit_logs' = write_audit(audit_logs,
                   [ id |-> uuid4(uuid_ctr + 1), organization_id |-> org.id, user_id |-> actor,
                     system_id |-> None, resource_type |-> "calls", resource_id |-> None,
                     action |-> "denied", before |-> None, after |-> None,
                     created_at |-> now(clock + 1) ])
            /\ uuid_ctr' = uuid_ctr + 1
            /\ clock' = clock + 1
       ELSE /\ pc' = "systems"
            /\ UNCHANGED <<locals, result, audit_logs, uuid_ctr, clock>>
    /\ UNCHANGED <<tables, calls, ai_runs, invocations, returned_ok, pre>>

\* membership check
MemberCheck ==
    /\ pc = "member"
    /\ IF FalsyRow(find_member(org, actor))
       THEN ReturnFailure(Append(errors, <<"AUTH_ORG_MISMATCH", "Actor not authorized for organization">>))
       ELSE /\ pc' = "systems"
            /\ UNCHANGED <<locals, result>>
    /\ UNCHANGED <<tables, rows, uuid_ctr, clock, invocations, returned_ok, pre>>

\* 2) Resolve systems
ResolveSystems ==
    /\ pc = "systems"
    /\ LET cpid == system_map_get("system-cpid")
           ai   == system_map_get("system-ai")
       IN IF Falsy(cpid)
          THEN ReturnFailure(Append(errors, <<"CALL_START_SYS_MISSING", "Control system not registered">>))
          ELSE /\ sys_cpid' = cpid
               /\ sys_ai' = ai
               /\ pc' = "insert"
               /\ UNCHANGED <<input, actor, errors, org, call_id, call_row, call_sid,
                              mods, result>>
    /\ UNCHANGED <<tables, rows, uuid_ctr, clock, invocations, returned_ok, pre>>

\* faulty variant of NewCallRow: the symbolic key of the control system is stored, not its id
NewCallRowSystemKey(id, o, cpid, a) ==
    [ id |-> id, organization_id |-> o.id, system_id |-> "system-cpid", status |-> "pending",
      started_at |-> None, ended_at |-> None, created_by |-> a, call_sid |-> None ]

\* the pending row built at step 3
NewCallRow(id, o, cpid, a) ==
    [ id |-> id, organization_id |-> o.id, system_id |-> cpid, status |-> "pending",
      started_at |-> None, ended_at |-> None, created_by |-> a, call_sid |-> None ]

\* 3) Insert calls row (status pending)
InsertCall ==
    /\ pc = "insert"
    /\ uuid_ctr' = uuid_ctr + 1
    /\ call_id' = uuid4(uuid_ctr + 1)
    /\ calls' = Append(calls, NewCallRow(call_id', org, sys_cpid, actor))
    /\ call_row' = Len(calls) + 1
    /\ pc' = "provider"
    /\ UNCHANGED <<tables, ai_runs, audit_logs, input, actor, errors, org, sys_cpid,
                   sys_ai, call_sid, mods, result, clock, invocations, returned_ok, pre>>

\* faulty variant of AcceptedCallRow: the provider id is attached but the status is left pending
AcceptedCallRowStillPending(row, sid, at) ==
    [row EXCEPT !.call_sid = sid, !.started_at = at]

\* faulty variant of AcceptedCallRow: started_at is not stamped
AcceptedCallRowNoStamp(row, sid, at) ==
    [row EXCEPT !.call_sid = sid, !.status = "in-progress"]

\* the in-place update of call_row at step 4
AcceptedCallRow(row, sid, at) ==
    [row EXCEPT !.call_sid = sid, !.status = "in-progress", !.started_at = at]

\* 4) SignalWire call (simulate success)
ProviderAccept ==
    /\ pc = "provider"
    /\ uuid_ctr' = uuid_ctr + 1
    /\ clock' = clock + 1
    /\ call_sid' = provider_sid(uuid_ctr + 1)
    /\ calls' = [calls EXCEPT ![call_row] = AcceptedCallRow(@, call_sid', now(clock + 1))]
    /\ pc' = "transcribe"
    /\ UNCHANGED <<tables, ai_runs, audit_logs, input, actor, errors, org, sys_cpid,
                   sys_ai, call_id, call_row, mods, result, invocations, returned_ok, pre>>

\* faulty variant of NewAiRow: the run's own id is stored where the call's id belongs
NewAiRowOwnId(id, cid, ai) ==
    [ id |-> id, call_id |-> id, system_id |-> ai, model |-> "assemblyai-v1",
      status |-> "queued", started_at |-> None, completed_at |-> None, output |-> None ]

\* the ai_runs row built at step 5
NewAiRow(id, cid, ai) ==
    [ id |-> id, call_id |-> cid, system_id |-> ai, model |-> "assemblyai-v1",
      status |-> "queued", started_at |-> None, completed_at |-> None, output |-> None ]

\* faulty variant of Transcribe: a missing AI system is passed over without an error
TranscribeSilent ==
    /\ pc = "transcribe"
    /\ mods' = IF "modulations" \in DOMAIN input THEN input.modulations ELSE EmptyDict
    /\ IF Requested(mods', "transcribe") /\ ~Falsy(sys_ai)
       THEN /\ uuid_ctr' = uuid_ctr + 1
            /\ ai_runs' = Append(ai_runs, NewAiRow(uuid4(uuid_ctr + 1), call_id, sys_ai))
       ELSE UNCHANGED <<ai_runs, uuid_ctr>>
    /\ pc' = "record"
    /\ UNCHANGED <<tables, calls, audit_logs, input, actor, errors, org, sys_cpid, sys_ai,
                   call_id, call_row, call_sid, result, clock, invocations, returned_ok, pre>>

\* 5) If transcribe requested -> insert ai_runs
Transcribe ==
    /\ pc = "transcribe"
    /\ mods' = IF "modulations" \in DOMAIN input THEN input.modulations ELSE EmptyDict
    /\ IF Requested(mods', "transcribe")
       THEN IF Falsy(sys_ai)
            THEN /\ errors' = Append(errors, <<"AI_SYSTEM_MISSING", "AI system not registered">>)
                 /\ UNCHANGED <<ai_runs, uuid_ctr>>
            ELSE /\ uuid_ctr' = uuid_ctr + 1
                 /\ ai_runs' = Append(ai_runs, NewAiRow(uuid4(uuid_ctr + 1), call_id, sys_ai))
                 /\ UNCHANGED errors
       ELSE UNCHANGED <<errors, ai_runs, uuid_ctr>>
    /\ pc' = "record"
    /\ UNCHANGED <<tables, calls, audit_logs, input, actor, org, sys_cpid, sys_ai,
                   call_id, call_row, call_sid, result, clock, invocations, returned_ok, pre>>

\* the intent entry built at step 6
IntentEntry(id, o, a, cpid, cid, requested_at, created_at) ==
    [ id |-> id, organization_id |-> o.id, user_id |-> a, system_id |-> cpid,
      resource_type |-> "calls", resource_id |-> cid,
      action |-> "intent:recording_requested", before |-> None,
      after |-> [tool_id |-> o.tool_id, requested_at |-> requested_at],
      created_at |-> created_at ]

\* 6) If record requested -> write audit intent (no recordings row)
RecordIntent ==
    /\ pc = "record"
    /\ IF Requested(mods, "record")
       THEN /\ uuid_ctr' = uuid_ctr + 1
            /\ clock' = clock + 2
            /\ audit_logs' = write_audit(audit_logs,
                   IntentEntry(uuid4(uuid_ctr + 1), org, actor, sys_cpid, call_id,
                               now(clock + 1), now(clock + 2)))
       ELSE UNCHANGED <<uuid_ctr, clock, audit_logs>>
    /\ pc' = "audit"
    /\ UNCHANGED <<tables, calls, ai_runs, locals, result, invocations, returned_ok, pre>>

\* faulty variant of CreateEntry: the snapshot is taken without the provider call identifier
CreateEntryNoSid(id, o, a, cpid, cid, canonical, m, sid, created_at) ==
    [ id |-> id, organization_id |-> o.id, user_id |-> a, system_id |-> cpid,
      resource_type |-> "calls", resource_id |-> cid,
      action |-> "create", before |-> None,
      after |-> ("call_sid" :> None) @@ ("config" :> m) @@ canonical,
      created_at |-> created_at ]

\* the create entry built at step 7: after = {**canonical, 'config': mods, 'call_sid': call_sid}
CreateEntry(id, o, a, cpid, cid, canonical, m, sid, created_at) ==
    [ id |-> id, organization_id |-> o.id, user_id |-> a, system_id |-> cpid,
      resource_type |-> "calls", resource_id |-> cid,
      action |-> "create", before |-> None,
      after |-> ("call_sid" :> sid) @@ ("config" :> m) @@ canonical,
      created_at |-> created_at ]

\* 7) Final create audit
FinalAudit ==
    /\ pc = "audit"
    /\ uuid_ctr' = uuid_ctr + 1
    /\ clock' = clock + 1
    /\ audit_logs' = write_audit(audit_logs,
           CreateEntry(uuid4(uuid_ctr + 1), org, actor, sys_cpid, call_id,
                       calls[call_row], mods, call_sid, now(clock + 1)))
    /\ pc' = "return"
    /\ UNCHANGED <<tables, calls, ai_runs, locals, result, invocations, returned_ok, pre>>

\* return { 'success': True, 'call_id': call_id, 'errors': errors }
ReturnSuccess ==
    /\ pc = "return"
    /\ result' = [success |-> TRUE, call_id |-> call_id, errors |-> errors]
    /\ pc' = "idle"
    /\ UNCHANGED <<input, actor>>
    /\ errors' = <<>>
    /\ org' = NoRow
    /\ sys_cpid' = None
    /\ sys_ai' = None
    /\ call_id' = None
    /\ call_row' = 0
    /\ call_sid' = None
    /\ mods' = EmptyDict
    /\ returned_ok' = returned_ok + 1
    /\ UNCHANGED <<tables, rows, uuid_ctr, clock, invocations, pre>>

Next ==
    \/ \E i \in InputValues, a \in ActorValues : Invoke(i, a)
    \/ AuthCheck
    \/ OrgCheck
    \/ MemberCheck
    \/ ResolveSystems
    \/ InsertCall
    \/ ProviderAccept
    \/ Transcribe
    \/ RecordIntent
    \/ FinalAudit
    \/ ReturnSuccess

Spec == Init /\ [][Next]_vars

----------------------------------------------------------------------------
(* Vocabulary of the properties, stated on the tables and the arguments     *)
(* without the operators of the workflow                                    *)

\* an invocation has returned: result, input, actor and pre are those of it
Returned == pc = "idle" /\ invocations > 0

Codes(errs) == { errs[i][1] : i \in 1..Len(errs) }

ActorMissing == actor = None \/ actor = ""

OrgKnown == input.organization_id \in DOMAIN organizations

ActorIsMember ==
    \E i \in 1..Len(org_members) :
        /\ org_members[i].organization_id = organizations[input.organization_id].id
        /\ org_members[i].user_id = actor

Registered(key) == \E i \in 1..Len(systems) : systems[i].key = key

\* the code of the first hard precondition that fails, "" when all four pass
FirstHardFailure ==
    IF ActorMissing THEN "AUTH_REQUIRED"
    ELSE IF ~OrgKnown THEN "CALL_START_ORG_NOT_FOUND"
    ELSE IF ~ActorIsMember THEN "AUTH_ORG_MISMATCH"
    ELSE IF ~Registered("system-cpid") THEN "CALL_START_SYS_MISSING"
    ELSE ""

HardCodes ==
    { "AUTH_REQUIRED", "CALL_START_ORG_NOT_FOUND", "AUTH_ORG_MISMATCH", "CALL_START_SYS_MISSING" }

AppliedModulations == IF "modulations" \in DOMAIN input THEN input.modulations ELSE <<>>

Wants(k) == k \in DOMAIN AppliedModulations /\ AppliedModulations[k] = TRUE

\* the rows the invocation added to a table
Added(before, after) == SubSeq(after, Len(before) + 1, Len(after))

IsPrefix(s, t) == Len(s) <= Len(t) /\ SubSeq(t, 1, Len(s)) = s

Actions(entries) == [i \in 1..Len(entries) |-> entries[i].action]

----------------------------------------------------------------------------
C2_Original ==
    (Returned /\ ~OrgKnown) =>
        /\ result.success = FALSE
        /\ "CALL_START_ORG_NOT_FOUND" \in Codes(result.errors)

(* C2, amended: every invocation with a non-empty actor whose               *)
(* organization_id is not a key of organizations returns success=false      *)
(* with CALL_START_ORG_NOT_FOUND.                                           *)
C2_OrgNotFound ==
    (Returned /\ ~ActorMissing /\ ~OrgKnown) =>
        /\ result.success = FALSE
        /\ "CALL_START_ORG_NOT_FOUND" \in Codes(result.errors)

C2_Witness ==
    /\ Returned
    /\ actor = "user-1"
    /\ organizations # <<>>
    /\ ~OrgKnown
    /\ Codes(result.errors) = {"CALL_START_ORG_NOT_FOUND"}

(* C3: the hard preconditions are checked in the order actor, organization, *)
(* membership, system-cpid and the first failure ends the invocation: a     *)
(* success=false result holds exactly one error, whose code is that of the  *)
(* first precondition in this order that fails.                             *)
C3_FirstFailureOnly ==
    (Returned /\ result.success = FALSE) =>
        /\ Len(result.errors) = 1
        /\ result.errors[1][1] = FirstHardFailure

\* the actor is no member and system-cpid is missing as well: the membership is reported
C3_Witness ==
    /\ Returned
    /\ result.success = FALSE
    /\ ~ActorMissing
    /\ OrgKnown
    /\ ~ActorIsMember
    /\ ~Registered("system-cpid")
    /\ result.errors[1][1] = "AUTH_ORG_MISMATCH"

(* C4: an invocation that returns success=false leaves calls, ai_runs and   *)
(* audit_logs as they were, its error is one of the four hard codes and its *)
(* result has no call_id.                                                   *)
C4_HardFailureNoEffect ==
    (Returned /\ result.success = FALSE) =>
        /\ calls = pre.calls
        /\ ai_runs = pre.ai_runs
        /\ audit_logs = pre.audit_logs
        /\ Codes(result.errors) \subseteq HardCodes
        /\ "call_id" \notin DOMAIN result

\* a failure after an earlier invocation has filled the tables
C4_Witness ==
    /\ Returned
    /\ result.success = FALSE
    /\ Len(calls) > 0
    /\ Len(ai_runs) > 0
    /\ Len(audit_logs) > 1
    /\ Codes(result.errors) = {"AUTH_ORG_MISMATCH"}

(* C5: with org-1, member user-1 of org-1 and system-cpid registered, the   *)
(* invocation with organization_id org-1, empty modulations and actor       *)
(* user-1 returns success=true, adds exactly one Call row, in-progress with *)
(* a non-null call_sid, and adds exactly one AuditLog entry, a create.      *)
C5_Scenario ==
    /\ "org-1" \in DOMAIN organizations
    /\ \E i \in 1..Len(org_members) :
          org_members[i].organization_id = "org-1" /\ org_members[i].user_id = "user-1"
    /\ Registered("system-cpid")
    /\ input = [organization_id |-> "org-1", modulations |-> <<>>]
    /\ actor = "user-1"

C5_HappyPath ==
    (Returned /\ C5_Scenario) =>
        /\ result.success = TRUE
        /\ IsPrefix(pre.calls, calls)
        /\ Len(calls) = Len(pre.calls) + 1
        /\ calls[Len(calls)].status = "in-progress"
        /\ calls[Len(calls)].call_sid # None
        /\ IsPrefix(pre.audit_logs, audit_logs)
        /\ Actions(Added(pre.audit_logs, audit_logs)) = <<"create">>

C5_Witness ==
    /\ Returned
    /\ C5_Scenario
    /\ Len(calls) = 1
    /\ calls[1].status = "in-progress"
    /\ Len(audit_logs) = 1

(* C6: when the hard preconditions pass, transcribe is requested and        *)
(* system-ai is registered, the invocation adds exactly one AiRun row, with *)
(* status queued and the call_id of the Call row this invocation created    *)
(* (the call_id of the result); when transcribe is not requested the        *)
(* invocation adds no AiRun row.                                            *)
C6_AiRunForTranscribe ==
    Returned =>
        /\ (FirstHardFailure = "" /\ Wants("transcribe") /\ Registered("system-ai")) =>
              /\ IsPrefix(pre.ai_runs, ai_runs)
              /\ Len(ai_runs) = Len(pre.ai_runs) + 1
              /\ ai_runs[Len(ai_runs)].status = "queued"
              /\ ai_runs[Len(ai_runs)].call_id = result.call_id
              /\ Len(calls) = Len(pre.calls) + 1
              /\ ai_runs[Len(ai_runs)].call_id = calls[Len(calls)].id
        /\ ~Wants("transcribe") => ai_runs = pre.ai_runs

\* a second transcribed call: its run refers to the second call, not the first
C6_Witness ==
    /\ Returned
    /\ result.success = TRUE
    /\ Wants("transcribe")
    /\ Len(calls) = 2
    /\ Len(ai_runs) = 2
    /\ ai_runs[2].call_id = calls[2].id
    /\ ai_runs[1].call_id = calls[1].id

(* C7: when the hard preconditions pass and transcribe is requested but     *)
(* system-ai is not registered, the invocation still returns success=true   *)
(* with the call_id of a Call row it created, errors contains               *)
(* AI_SYSTEM_MISSING and no AiRun row is added; AI_SYSTEM_MISSING is the    *)
(* only code a success=true result can hold.                                *)
C7_SoftFailure ==
    Returned =>
        /\ (FirstHardFailure = "" /\ Wants("transcribe") /\ ~Registered("system-ai")) =>
              /\ result.success = TRUE
              /\ "call_id" \in DOMAIN result
              /\ Len(calls) = Len(pre.calls) + 1
              /\ calls[Len(calls)].id = result.call_id
              /\ "AI_SYSTEM_MISSING" \in Codes(result.errors)
              /\ ai_runs = pre.ai_runs
        /\ result.success = TRUE => Codes(result.errors) \subseteq {"AI_SYSTEM_MISSING"}

C7_Witness ==
    /\ Returned
    /\ result.success = TRUE
    /\ Wants("transcribe")
    /\ ~Registered("system-ai")
    /\ Len(calls) > 0
    /\ ai_runs = <<>>
    /\ Codes(result.errors) = {"AI_SYSTEM_MISSING"}

(* C8: when the hard preconditions pass and record is requested, the        *)
(* invocation appends an intent:recording_requested entry for the new call  *)
(* and after it the create entry of that call, and nothing else: every row  *)
(* it writes is a Call, an AiRun or an AuditLog entry on the calls          *)
(* resource, none is a Recording.  When record is not requested it writes   *)
(* no intent entry.                                                         *)
C8_IntentBeforeCreate ==
    (Returned /\ FirstHardFailure = "") =>
        LET new == Added(pre.audit_logs, audit_logs)
        IN /\ IsPrefix(pre.audit_logs, audit_logs)
           /\ \A i \in 1..Len(new) :
                 new[i].resource_type = "calls" /\ new[i].resource_id = result.call_id
           /\ Wants("record") => Actions(new) = <<"intent:recording_requested", "create">>
           /\ ~Wants("record") =>
                 \A i \in 1..Len(new) : new[i].action # "intent:recording_requested"

\* a recorded call after an earlier call: the log was not empty when the intent was written
C8_Witness ==
    /\ Returned
    /\ result.success = TRUE
    /\ Wants("record")
    /\ Len(pre.audit_logs) > 0
    /\ Len(audit_logs) = Len(pre.audit_logs) + 2
    /\ audit_logs[Len(audit_logs) - 1].action = "intent:recording_requested"
    /\ audit_logs[Len(audit_logs)].action = "create"

\* the entries of the log that record a transition, intent entries left out
TransitionRecords == { i \in 1..Len(audit_logs) : audit_logs[i].action # "intent:recording_requested" }

(* C9: after any sequence of invocations every state-changing action on a   *)
(* Call or AiRun row (the creation of a Call in pending, its transition to  *)
(* in-progress, the creation of an AiRun) is paired with exactly one        *)
(* AuditLog entry recording it, intent entries not counted: there are as    *)
(* many such entries as there were such actions, two for each Call row and  *)
(* one for each AiRun row.                                                  *)
C9_EveryTransitionAudited ==
    Returned => Cardinality(TransitionRecords) = 2 * Len(calls) + Len(ai_runs)

(* C10: an invocation that passes the hard preconditions writes, as its     *)
(* last AuditLog entry, a create record whose resource_id is the new call's *)
(* id, whose before is null and whose after holds every field of the Call   *)
(* row as it stands (in-progress, started_at stamped), the applied          *)
(* modulations as config, and the row's call_sid; with or without a soft    *)
(* failure.                                                                 *)
C10_FinalCreateRecord ==
    (Returned /\ FirstHardFailure = "") =>
        LET last == audit_logs[Len(audit_logs)]
            row  == calls[Len(calls)]
        IN /\ Len(audit_logs) > Len(pre.audit_logs)
           /\ Len(calls) = Len(pre.calls) + 1
           /\ row.id = result.call_id
           /\ last.action = "create"
           /\ last.resource_id = row.id
           /\ last.before = None
           /\ \A f \in DOMAIN row : f \in DOMAIN last.after /\ last.after[f] = row[f]
           /\ last.after.status = "in-progress"
           /\ last.after.started_at # None
           /\ last.after.config = AppliedModulations
           /\ last.after.call_sid = row.call_sid
           /\ row.call_sid # None

\* a call with a soft failure and a recording intent
C10_Witness ==
    /\ Returned
    /\ result.success = TRUE
    /\ Codes(result.errors) = {"AI_SYSTEM_MISSING"}
    /\ Wants("record")
    /\ audit_logs[Len(audit_logs)].action = "create"
    /\ audit_logs[Len(audit_logs)].after.config = AppliedModulations

(* C11: in every reachable state, also in the middle of an invocation,      *)
(* each Call row's organization_id is the id of an Organization of the      *)
(* organizations table and its system_id is the id of the System registered *)
(* under the key system-cpid, and each AiRun row's call_id is the id of a   *)
(* Call row of the calls table.                                             *)
C11_ReferencesResolve ==
    /\ \A i \in 1..Len(calls) :
          /\ \E k \in DOMAIN organizations : organizations[k].id = calls[i].organization_id
          /\ \E j \in 1..Len(systems) :
                systems[j].key = "system-cpid" /\ systems[j].id = calls[i].system_id
    /\ \A i \in 1..Len(ai_runs) :
          \E j \in 1..Len(calls) : calls[j].id = ai_runs[i].call_id

\* calls of two organizations, each with its run
C11_Witness ==
    /\ Len(calls) = 2
    /\ calls[1].organization_id # calls[2].organization_id
    /\ Len(ai_runs) = 2
    /\ ai_runs[1].call_id = calls[1].id
    /\ ai_runs[2].call_id = calls[2].id

(* C12: the audit log is append-only: every step leaves the entries of      *)
(* audit_logs in place, unchanged and in order, and at most adds entries at *)
(* its end; no step changes organizations, org_members or systems.          *)
C12_AppendOnly ==
    [][ /\ IsPrefix(audit_logs, audit_logs')
        /\ organizations' = organizations
        /\ org_members' = org_members
        /\ systems' = systems ]_vars

\* a second successful invocation has written after the entries of the first
C12_Witness ==
    /\ Returned
    /\ Len(pre.audit_logs) >= 2
    /\ Len(audit_logs) >= Len(pre.audit_logs) + 2
    /\ IsPrefix(pre.audit_logs, audit_logs)

(* C13: whenever no invocation is in progress, initially and after each    *)
(* return, no Call row is pending: every Call row is in-progress with a     *)
(* non-null call_sid, a non-null started_at and a null ended_at, the calls  *)
(* table has as many rows as invocations have returned success=true, and    *)
(* the ids of its rows are pairwise distinct.                               *)
C13_NoPendingAtRest ==
    pc = "idle" =>
        /\ \A i \in 1..Len(calls) :
              /\ calls[i].status = "in-progress"
              /\ calls[i].call_sid # None
              /\ calls[i].started_at # None
              /\ calls[i].ended_at = None
        /\ Len(calls) = returned_ok
        /\ \A i, j \in 1..Len(calls) : calls[i].id = calls[j].id => i = j

\* at rest after a success and then a failure: one row for two invocations
C13_Witness ==
    /\ pc = "idle"
    /\ invocations = 2
    /\ returned_ok = 1
    /\ result.success = FALSE
    /\ Len(calls) = 1
    /\ calls[1].status = "in-progress"

====
